---- MODULE Spec2Model ----
(***************************************************************************)
(* Model of the Local Lore heritage API (src/main.py): the Wikimedia       *)
(* client, the three request handlers and the text summarizer.             *)
(*                                                                         *)
(* A Python str is a tuple of one-character strings, so that split, strip, *)
(* lower, replace, the regular expressions and the string sort are         *)
(* computed character by character as the code computes them.              *)
(***************************************************************************)
EXTENDS Integers, Sequences, FiniteSets, TLC

(***************************************************************************)
(* Characters                                                              *)
(***************************************************************************)
\* The characters of the model in code-point order (str comparison).
Ascii ==
    <<"\n"," ","!",",","-",".","/","0","1","2","3","4","5","6","7","8","9",":",";","?","A","B","C","D","E","F","G","H","I","J","K","L","M","N","O","P","Q","R","S","T","U","V","W","X","Y","Z","_","a","b","c","d","e","f","g","h","i","j","k","l","m","n","o","p","q","r","s","t","u","v","w","x","y","z">>

CharSet == {Ascii[i] : i \in 1..Len(Ascii)}

\* ord(c), up to an order-preserving renumbering.
Code == [c \in CharSet |-> CHOOSE i \in 1..Len(Ascii) : Ascii[i] = c]

UpperCase ==
    <<"A","B","C","D","E","F","G","H","I","J","K","L","M","N","O","P","Q","R","S","T","U","V","W","X","Y","Z">>

LowerCase ==
    <<"a","b","c","d","e","f","g","h","i","j","k","l","m","n","o","p","q","r","s","t","u","v","w","x","y","z">>

Digit == {"0","1","2","3","4","5","6","7","8","9"}

UpperSet == {UpperCase[i] : i \in 1..26}

LowerSet == {LowerCase[i] : i \in 1..26}

LowerOf == [c \in UpperSet |-> LowerCase[CHOOSE i \in 1..26 : UpperCase[i] = c]]

\* str.lower() on one character.
ToLower(c) == IF c \in UpperSet THEN LowerOf[c] ELSE c

\* \s of the regular expressions and the whitespace of str.strip().
IsSpace(c) == c \in {" ", "\n"}

\* \w of the regular expressions.
IsWord(c) == c \in Digit \/ c \in UpperSet \/ c \in LowerSet \/ c = "_"

(***************************************************************************)
(* str operations                                                          *)
(***************************************************************************)
Min(a, b) == IF a < b THEN a ELSE b

\* F(v) with v evaluated once, as a call evaluates its argument.
Call(F(_), v) == CHOOSE r \in {F(x) : x \in {v}} : TRUE

\* s[:n]
Take(s, n) == Call(LAMBDA v : SubSeq(v, 1, Min(n, Len(v))), s)

\* The least and the greatest index in S, 0 when S is empty.
First(S) == Call(LAMBDA V : IF V = {} THEN 0 ELSE CHOOSE i \in V : \A j \in V : i <= j, S)

Last(S) == Call(LAMBDA V : IF V = {} THEN 0 ELSE CHOOSE i \in V : \A j \in V : j <= i, S)

\* s.lower()
Lower(s) == [i \in 1..Len(s) |-> ToLower(s[i])]

\* sub occurs in s at index i.
MatchAt(s, i, sub) ==
    /\ i >= 1
    /\ i + Len(sub) - 1 <= Len(s)
    /\ \A k \in 1..Len(sub) : s[i + k - 1] = sub[k]

\* sub in s
Contains(s, sub) == \E i \in 1..(Len(s) - Len(sub) + 1) : MatchAt(s, i, sub)

\* s.strip()
Strip(s) ==
    Call(LAMBDA keep : IF keep = {} THEN <<>> ELSE SubSeq(s, First(keep), Last(keep)),
         {i \in 1..Len(s) : ~IsSpace(s[i])})

\* s.find(sub, start): the leftmost occurrence of sub from index start on,
\* 0 when there is none.
Find(s, sub, start) == First({i \in start..Len(s) : MatchAt(s, i, sub)})

\* The pieces of s from index start on: cut at the leftmost occurrence of
\* sep, then go on after it.
RECURSIVE SplitFrom(_, _, _)
SplitFrom(s, sep, start) ==
    Call(LAMBDA hit :
           IF hit = 0 THEN << SubSeq(s, start, Len(s)) >>
           ELSE << SubSeq(s, start, hit - 1) >> \o SplitFrom(s, sep, hit + Len(sep)),
         Find(s, sep, start))

\* s.split(sep)
Split(s, sep) == SplitFrom(s, sep, 1)

RECURSIVE ReplaceFrom(_, _, _, _)
ReplaceFrom(s, old, new, start) ==
    Call(LAMBDA hit :
           IF hit = 0 THEN SubSeq(s, start, Len(s))
           ELSE SubSeq(s, start, hit - 1) \o new \o ReplaceFrom(s, old, new, hit + Len(old)),
         Find(s, old, start))

\* s.replace(old, new), old non-empty
Replace(s, old, new) == ReplaceFrom(s, old, new, 1)

\* a < b on str: by code point, a proper prefix first.
RECURSIVE StrLessFrom(_, _, _)
StrLessFrom(a, b, i) ==
    IF i > Len(b) THEN FALSE
    ELSE IF i > Len(a) THEN TRUE
    ELSE IF a[i] = b[i] THEN StrLessFrom(a, b, i + 1)
    ELSE Code[a[i]] < Code[b[i]]

StrLess(a, b) == StrLessFrom(a, b, 1)

(***************************************************************************)
(* Text summarizer                                                         *)
(***************************************************************************)
heritage_keywords ==
    << <<"b","u","i","l","t">>,
       <<"c","o","n","s","t","r","u","c","t","e","d">>,
       <<"e","s","t","a","b","l","i","s","h","e","d">>,
       <<"f","o","u","n","d","e","d">>,
       <<"c","e","n","t","u","r","y">>,
       <<"a","n","c","i","e","n","t">>,
       <<"h","i","s","t","o","r","i","c","a","l">>,
       <<"h","e","r","i","t","a","g","e">>,
       <<"m","o","n","u","m","e","n","t">>,
       <<"t","e","m","p","l","e">>,
       <<"f","o","r","t">>,
       <<"p","a","l","a","c","e">>,
       <<"a","r","c","h","i","t","e","c","t","u","r","e">>,
       <<"d","y","n","a","s","t","y">>,
       <<"e","m","p","i","r","e">> >>

cultural_keywords ==
    << <<"c","u","l","t","u","r","e">>,
       <<"t","r","a","d","i","t","i","o","n">>,
       <<"f","e","s","t","i","v","a","l">>,
       <<"r","i","t","u","a","l">>,
       <<"w","o","r","s","h","i","p">>,
       <<"p","i","l","g","r","i","m","a","g","e">>,
       <<"s","a","c","r","e","d">>,
       <<"r","e","l","i","g","i","o","u","s">>,
       <<"s","p","i","r","i","t","u","a","l">>,
       <<"a","r","t">>,
       <<"c","r","a","f","t">>,
       <<"m","u","s","i","c">>,
       <<"d","a","n","c","e">>,
       <<"c","u","i","s","i","n","e">>,
       <<"c","u","s","t","o","m">> >>

SentenceSep == <<".", " ">>

\* any(keyword in sentence.lower() for keyword in keywords)
AnyKeyword(sentence, keywords) ==
    \E lowered \in {Lower(sentence)} :
        \E k \in 1..Len(keywords) : Contains(lowered, keywords[k])

\* Faulty variant of LongEnough: len(sentence) >= 20.
LongEnough_or_equal(sentence) == Len(sentence) >= 20

\* len(sentence) > 20
LongEnough(sentence) == Len(sentence) > 20

\* The loop over the sentences: strip, test, append the sentence and a period.
RECURSIVE SentenceLoop(_, _, _, _)
SentenceLoop(sentences, keywords, i, acc) ==
    IF i > Len(sentences) THEN acc
    ELSE Call(LAMBDA sentence :
                IF LongEnough(sentence) /\ AnyKeyword(sentence, keywords)
                THEN SentenceLoop(sentences, keywords, i + 1, Append(acc, sentence \o <<".">>))
                ELSE SentenceLoop(sentences, keywords, i + 1, acc),
              Strip(sentences[i]))

\* The matching sentences of t, all of them.
MatchingSentences(t, keywords) ==
    Call(LAMBDA sentences : SentenceLoop(sentences, keywords, 1, <<>>), Split(t, SentenceSep))

extract_heritage_facts(t) ==
    IF t = <<>> THEN <<>>
    ELSE Take(MatchingSentences(t, heritage_keywords), 5)

extract_cultural_info(t) ==
    IF t = <<>> THEN <<>>
    ELSE Take(MatchingSentences(t, cultural_keywords), 3)

\* \b between s[i-1] and s[i] (i in 1..Len(s)+1).
WordBoundary(s, i) ==
    LET before == i > 1 /\ IsWord(s[i - 1])
        after  == i <= Len(s) /\ IsWord(s[i])
    IN  before # after

\* year_pattern \b(1[0-9]{3}|20[0-2][0-9])\b matches s[i..i+3].
YearAt(s, i) ==
    /\ i + 3 <= Len(s)
    /\ WordBoundary(s, i)
    /\ \/ s[i] = "1" /\ \A k \in 1..3 : s[i + k] \in Digit
       \/ s[i] = "2" /\ s[i + 1] = "0" /\ s[i + 2] \in {"0", "1", "2"} /\ s[i + 3] \in Digit
    /\ WordBoundary(s, i + 4)

\* The leftmost match of year_pattern from index start on, 0 when none.
FirstYear(s, start) == First({i \in start..Len(s) : YearAt(s, i)})

\* re.findall(year_pattern, text): left to right, non-overlapping.
RECURSIVE FindYears(_, _)
FindYears(s, start) ==
    Call(LAMBDA hit :
           IF hit = 0 THEN <<>>
           ELSE << SubSeq(s, hit, hit + 3) >> \o FindYears(s, hit + 4),
         FirstYear(s, start))

CenturySuffixes == { <<"s","t">>, <<"n","d">>, <<"r","d">>, <<"t","h">> }

CenturyWord == <<"c","e","n","t","u","r","y">>

\* Number of whitespace characters from s[i] on.
SpaceRun(s, i) ==
    Call(LAMBDA stop : IF stop = 0 THEN Len(s) + 1 - i ELSE stop - i,
         First({j \in i..Len(s) : ~IsSpace(s[j])}))

\* (st|nd|rd|th)\s+century\b from s[j] on, ignoring case: the index after
\* the match, or 0.
CenturyTail(s, j) ==
    IF j + 1 <= Len(s) /\ Lower(SubSeq(s, j, j + 1)) \in CenturySuffixes
    THEN Call(LAMBDA k :
                LET e == j + 2 + k + Len(CenturyWord)
                IN  IF k >= 1 /\ e - 1 <= Len(s)
                       /\ Lower(SubSeq(s, j + 2 + k, e - 1)) = CenturyWord
                       /\ WordBoundary(s, e)
                    THEN e ELSE 0,
              SpaceRun(s, j + 2))
    ELSE 0

NoCentury == [century |-> <<>>, suffix |-> <<>>, next |-> 0]

\* century_pattern \b(\d{1,2})(st|nd|rd|th)\s+century\b at s[i], re.IGNORECASE:
\* two digits are tried before one. [groups, next index] or next = 0.
CenturyAt(s, i) ==
    IF ~(i <= Len(s) /\ s[i] \in Digit /\ WordBoundary(s, i))
    THEN NoCentury
    ELSE Call(LAMBDA two :
                IF two # 0
                THEN [century |-> SubSeq(s, i, i + 1), suffix |-> SubSeq(s, i + 2, i + 3),
                      next |-> two]
                ELSE Call(LAMBDA one :
                            IF one # 0
                            THEN [century |-> SubSeq(s, i, i), suffix |-> SubSeq(s, i + 1, i + 2),
                                  next |-> one]
                            ELSE NoCentury,
                          CenturyTail(s, i + 1)),
              IF i + 1 <= Len(s) /\ s[i + 1] \in Digit THEN CenturyTail(s, i + 2) ELSE 0)

\* The leftmost match of century_pattern from index start on, 0 when none.
FirstCentury(s, start) == First({i \in start..Len(s) : CenturyAt(s, i).next # 0})

\* re.findall(century_pattern, text, re.IGNORECASE)
RECURSIVE FindCenturies(_, _)
FindCenturies(s, start) ==
    Call(LAMBDA hit :
           IF hit = 0 THEN <<>>
           ELSE Call(LAMBDA m : << [century |-> m.century, suffix |-> m.suffix] >>
                                \o FindCenturies(s, m.next),
                     CenturyAt(s, hit)),
         FirstCentury(s, start))

\* set(years)
YearSet(years) == {years[i] : i \in 1..Len(years)}

\* The orders in which `for year in set(years)` can visit the set.
Orders(S) ==
    UNION { {p \in [1..n -> S] : \A i, j \in 1..n : p[i] = p[j] => i = j}
            : n \in {Cardinality(S)} }

\* sorted(timeline, key=period): each entry goes after the entries not
\* greater than it (the sort is stable).
InsertByPeriod(sorted, e) ==
    Call(LAMBDA k : SubSeq(sorted, 1, k) \o << e >> \o SubSeq(sorted, k + 1, Len(sorted)),
         Cardinality({i \in 1..Len(sorted) : ~StrLess(e.period, sorted[i].period)}))

RECURSIVE SortedByPeriod(_)
SortedByPeriod(timeline) ==
    IF timeline = <<>> THEN <<>>
    ELSE Call(LAMBDA sorted : InsertByPeriod(sorted, timeline[Len(timeline)]),
              SortedByPeriod(SubSeq(timeline, 1, Len(timeline) - 1)))

YearEntries(order) == [i \in 1..Len(order) |-> [period |-> order[i], type |-> "year"]]

CenturyEntries(centuries) ==
    [i \in 1..Len(centuries) |->
        [period |-> centuries[i].century \o centuries[i].suffix \o <<" ">> \o CenturyWord,
         type |-> "century"]]

\* Faulty variant of extract_historical_dates: `for year in years`, without set().
extract_historical_dates_all_years(t, order) ==
    IF t = <<>> THEN <<>>
    ELSE Take(Call(SortedByPeriod,
                   Call(YearEntries, FindYears(t, 1))
                   \o Call(CenturyEntries, FindCenturies(t, 1))), 5)

\* extract_historical_dates with the set of years visited in `order`.
extract_historical_dates(t, order) ==
    IF t = <<>> THEN <<>>
    ELSE Take(Call(SortedByPeriod,
                   YearEntries(order) \o Call(CenturyEntries, FindCenturies(t, 1))), 5)
Frag1 ==
    <<"T","h","e"," ","f","o","r","t"," ","w","a","s"," ","b","u","i","l","t"," ","i","n"," ","1","5","6","5"," ","a","n","d"," ","r","e","n","o","v","a","t","e","d"," ","i","n"," ","t","h","e"," ","1","9","t","h"," ","c","e","n","t","u","r","y","."," ">>

Frag2 ==
    <<"I","t"," ","i","s"," ","a"," ","f","a","m","o","u","s"," ","t","e","m","p","l","e",".">>

Frag3 ==
    <<"O","l","d"," ","f","o","r","t","."," ">>

Frag4 ==
    <<"A","n"," ","o","l","d"," ","f","o","r","t"," ","i","s"," ","t","h","e","r","e","."," ">>

Frag5 ==
    <<" "," ","S","a","c","r","e","d"," ","A","R","T"," ","a","n","d"," ","M","u","s","i","c"," ","o","f"," ","1","8","5","7"," ","a","n","d"," ","1","5","6","5","."," ">>

Frag6 ==
    <<"T","h","e"," ","r","i","v","e","r"," ","f","l","o","w","s"," ","t","o"," ","t","h","e"," ","s","e","a"," ","i","n"," ","2","0","3","0","."," ">>

Frag7 ==
    <<"R","e","b","u","i","l","t"," ","2","0","2","3"," ","a","n","d"," ","1","0","0","1",","," ","3","r","d","\n","C","e","n","t","u","r","y"," ","f","o","r","t",";"," ","x","1","9","4","7"," ","1","9","T","H"," "," ","c","e","n","t","u","r","y","."," ">>

Frag8 ==
    <<"A"," ","p","a","l","a","c","e"," ","o","f"," ","t","h","e"," ","M","u","g","h","a","l"," ","e","m","p","i","r","e","."," ","T","h","e"," ","d","a","n","c","e"," ","f","e","s","t","i","v","a","l"," ","o","f"," ","t","h","e"," ","t","e","m","p","l","e","."," ","A","n","c","i","e","n","t"," ","c","u","s","t","o","m"," ","a","n","d"," ","c","r","a","f","t"," ","h","e","r","i","t","a","g","e","."," ">>

(***************************************************************************)
(* Inputs of the text summarizer                                           *)
(***************************************************************************)
\* Longest text, in fragments.
MaxFrags == 2

Fragments == << Frag1, Frag2, Frag3, Frag4, Frag5, Frag6, Frag7, Frag8 >>

RECURSIVE Join(_)
Join(fs) == IF fs = <<>> THEN <<>> ELSE Fragments[Head(fs)] \o Join(Tail(fs))

\* The texts: every sequence of at most MaxFrags fragments, the empty text
\* included.
Texts == {Join(fs) : fs \in UNION {[1..n -> 1..Len(Fragments)] : n \in 0..MaxFrags}}


(***************************************************************************)
(* dict and Optional values                                                *)
(*                                                                         *)
(* A dict is a function on its keys, {} and [] are the empty function, and *)
(* an Optional value is a sequence of at most one element (None is << >>). *)
(***************************************************************************)
EmptyDict == << >>

None == << >>

\* k in d
Has(d, k) == k \in DOMAIN d

\* d.get(k, default)
Get(d, k, default) == IF Has(d, k) THEN d[k] ELSE default

\* d.get(k)
Opt(d, k) == IF Has(d, k) THEN << d[k] >> ELSE None

\* d.get(k1, d.get(k2))
Opt2(d, k1, k2) == IF Has(d, k1) THEN << d[k1] >> ELSE Opt(d, k2)

(***************************************************************************)
(* Wikimedia client                                                        *)
(***************************************************************************)
LANGUAGE_CODES == [en |-> "en", hi |-> "hi", ta |-> "ta", te |-> "te", bn |-> "bn"]

\* Faulty variant of wiki_lang: the code is used as given, without the fallback.
wiki_lang_as_given(lang) == lang

\* wiki_lang = LANGUAGE_CODES.get(lang, "en")
wiki_lang(lang) == Get(LANGUAGE_CODES, lang, "en")

India == <<" ","I","n","d","i","a">>

FilePrefix == <<"F","i","l","e",":">>

\* default of get_commons_images' limit, used by get_heritage_content
DefaultLimit == 10

\* An HTTP GET: the site and language of the host and the query parameters.
Request(site, hostlang, action, term, n, coord) ==
    [site |-> site, lang |-> hostlang, action |-> action, term |-> term, n |-> n,
     coord |-> coord]

SearchRequest(query, lang, limit) ==
    Request("wikipedia", wiki_lang(lang), "search", query \o India, limit, << >>)

ArticleRequest(title, lang) ==
    Request("wikipedia", wiki_lang(lang), "extracts|pageimages|coordinates|categories",
            title, 10, << >>)

CommonsSearchRequest(search_term, limit) ==
    Request("commons", "commons", "search", search_term \o India, limit, << >>)

ImageInfoRequest(title) ==
    Request("commons", "commons", "imageinfo", title, 400, << >>)

WikivoyageRequest(location, lang) ==
    Request("wikivoyage", wiki_lang(lang), "extracts|pageimages", location, 0, << >>)

GeoRequest(lat, lon, radius, lang) ==
    Request("wikipedia", wiki_lang(lang), "geosearch", << >>, radius * 1000, << lat, lon >>)

\* search_wikipedia after the await: the hits, [] on a fault or without
\* query.search.
search_wikipedia(resp) ==
    IF resp.fault THEN << >>
    ELSE IF Has(resp.data, "query") /\ Has(resp.data.query, "search")
         THEN resp.data.query.search
         ELSE << >>

\* get_article_content and get_wikivoyage_content after the await: the first
\* page, {} on a fault, without query.pages, or when pages is empty
\* (IndexError, caught).
first_page(resp) ==
    IF resp.fault THEN EmptyDict
    ELSE IF Has(resp.data, "query") /\ Has(resp.data.query, "pages")
         THEN IF resp.data.query.pages = << >> THEN EmptyDict
              ELSE resp.data.query.pages[1]
         ELSE EmptyDict

get_article_content(resp) == first_page(resp)

get_wikivoyage_content(resp) == first_page(resp)

\* The entry appended to images for item and its img_info.
ImageEntry(item, img_info) ==
    [title       |-> Replace(item.title, FilePrefix, << >>),
     url         |-> Opt2(img_info, "thumburl", "url"),
     full_url    |-> Opt(img_info, "url"),
     width       |-> Opt2(img_info, "thumbwidth", "width"),
     height      |-> Opt2(img_info, "thumbheight", "height"),
     description |-> Get(Get(Get(img_info, "extmetadata", EmptyDict),
                             "ImageDescription", EmptyDict), "value", "")]

\* One pass of the loop body of get_commons_images after its await: the
\* entries to append, or raised (a fault of the GET or of json(), or the
\* IndexError of an empty pages map or an empty imageinfo list).
image_lookup(item, resp) ==
    IF resp.fault THEN [raised |-> TRUE, add |-> << >>]
    ELSE IF Has(resp.data, "query") /\ Has(resp.data.query, "pages")
    THEN IF resp.data.query.pages = << >> THEN [raised |-> TRUE, add |-> << >>]
         ELSE LET page == resp.data.query.pages[1]
              IN  IF Has(page, "imageinfo")
                  THEN IF page.imageinfo = << >> THEN [raised |-> TRUE, add |-> << >>]
                       ELSE [raised |-> FALSE, add |-> << ImageEntry(item, page.imageinfo[1]) >>]
                  ELSE [raised |-> FALSE, add |-> << >>]
    ELSE [raised |-> FALSE, add |-> << >>]

(***************************************************************************)
(* Request handlers                                                        *)
(***************************************************************************)
Returned(body) == [outcome |-> "ok", body |-> body]

\* raise HTTPException(status_code=500, detail=...)
HTTPException(detail) == [outcome |-> "error", body |-> [status_code |-> 500, detail |-> detail]]

Space == << " " >>

Underscore == << "_" >>

\* search_locations after the await of search_wikipedia.
search_locations(query, lang, limit, wiki_results) ==
    IF \E i \in 1..Len(wiki_results) : ~Has(wiki_results[i], "title")
    THEN HTTPException("Search service unavailable")
    ELSE Returned(
           [query     |-> query,
            language  |-> lang,
            total     |-> Len(wiki_results),
            locations |-> [i \in 1..Len(wiki_results) |->
                             [id      |-> Replace(wiki_results[i].title, Space, Underscore),
                              title   |-> wiki_results[i].title,
                              snippet |-> Get(wiki_results[i], "snippet", ""),
                              source  |-> "wikipedia"]]])

\* get_nearby_heritage after the await of the geosearch GET.
get_nearby_heritage(lat, lon, radius, resp) ==
    IF resp.fault THEN HTTPException("Nearby search service unavailable")
    ELSE LET found  == Has(resp.data, "query") /\ Has(resp.data.query, "geosearch")
             places == IF found THEN resp.data.query.geosearch ELSE << >>
         IN  IF \E i \in 1..Len(places) : ~Has(places[i], "title")
             THEN HTTPException("Nearby search service unavailable")
             ELSE Returned(
                    [center    |-> [lat |-> lat, lon |-> lon],
                     radius_km |-> radius,
                     total     |-> Len(places),
                     places    |-> [i \in 1..Len(places) |->
                                      [id          |-> Replace(places[i].title, Space, Underscore),
                                       title       |-> places[i].title,
                                       distance    |-> Get(places[i], "dist", 0),
                                       coordinates |-> [lat |-> Get(places[i], "lat", 0),
                                                        lon |-> Get(places[i], "lon", 0)]]]])

\* What asyncio.gather(..., return_exceptions=True) hands back for a task,
\* after the isinstance(..., Exception) substitution by `empty`.
OrEmpty(outcome, empty) == IF outcome.raised THEN empty ELSE outcome.value

\* "wikipedia" of heritage_data
wikipedia_part(wiki_content) ==
    LET categories == Get(wiki_content, "categories", << >>)
    IN  [extract     |-> Get(wiki_content, "extract", << >>),
         coordinates |-> Get(wiki_content, "coordinates", << >>),
         categories  |-> [i \in 1..Len(categories) |-> Get(categories[i], "title", "")],
         page_image  |-> Get(wiki_content, "pageimage", "")]

\* "travel_info" of heritage_data
travel_part(wikivoyage_content) ==
    [extract    |-> Get(wikivoyage_content, "extract", << >>),
     page_image |-> Get(wikivoyage_content, "pageimage", "")]

\* "summary" of heritage_data, the set of years visited in `order`
summary_part(wiki_content, order) ==
    Call(LAMBDA extract :
           [heritage_facts        |-> extract_heritage_facts(extract),
            cultural_significance |-> extract_cultural_info(extract),
            historical_timeline   |-> extract_historical_dates(extract, order)],
         Get(wiki_content, "extract", << >>))

\* Faulty variant of heritage_data: wiki_content["extract"] in place of
\* wiki_content.get("extract", ""), a KeyError the handler turns into a 500.
heritage_data_strict(location_id, title, language, wiki_content, images, wikivoyage_content, order) ==
    IF ~Has(wiki_content, "extract")
    THEN HTTPException("Heritage content service unavailable")
    ELSE Returned(
           [location_id |-> location_id,
            title       |-> title,
            language    |-> language,
            wikipedia   |-> wikipedia_part(wiki_content),
            travel_info |-> travel_part(wikivoyage_content),
            images      |-> images,
            summary     |-> summary_part(wiki_content, order)])

\* get_heritage_content after the gather: heritage_data is built and returned.
heritage_data(location_id, title, language, wiki_content, images, wikivoyage_content, order) ==
    Returned(
      [location_id |-> location_id,
       title       |-> title,
       language    |-> language,
       wikipedia   |-> wikipedia_part(wiki_content),
       travel_info |-> travel_part(wikivoyage_content),
       images      |-> images,
       summary     |-> summary_part(wiki_content, order)])

(***************************************************************************)
(* Requests and upstream responses                                         *)
(***************************************************************************)
\* Longest list of hits an upstream response carries.
MaxHits == 2

\* Largest limit of a search request (the boundary admits 1..20).
MaxLimit == 2

\* Largest radius in km of a nearby request (the boundary admits 1..50).
MaxRadius == 2

Langs == {"en", "hi", "ta", "te", "bn", "fr"}

RedFort == <<"R","e","d"," ","F","o","r","t">>

Agra == <<"A","g","r","a">>

RedFortId == <<"R","e","d","_","F","o","r","t">>

FortFile == <<"F","i","l","e",":","F","o","r","t",".","j","p","g">>

GateFile == <<"F","i","l","e",":","G","a","t","e",".","p","n","g">>

TravelExtract == <<"A","g","r","a"," ","i","s"," ","a"," ","c","i","t","y",".">>

\* A response: a fault (transport error, timeout, or a body json() rejects)
\* or the decoded body.
Fault == [fault |-> TRUE, data |-> EmptyDict]

Body(data) == [fault |-> FALSE, data |-> data]

Lists(S) == UNION {[1..n -> S] : n \in 0..MaxHits}

WikiHits ==
    { [title |-> RedFort, snippet |-> "a fort"],
      [title |-> Agra],
      [snippet |-> "untitled"] }

SearchResponses ==
    {Fault, Body(EmptyDict), Body([query |-> EmptyDict])}
    \cup {Body([query |-> [search |-> hits]]) : hits \in Lists(WikiHits)}

GeoPlaces ==
    { [title |-> RedFort, dist |-> 120, lat |-> 28, lon |-> 77],
      [title |-> Agra],
      [dist |-> 5] }

GeoResponses ==
    {Fault, Body(EmptyDict), Body([query |-> EmptyDict])}
    \cup {Body([query |-> [geosearch |-> places]]) : places \in Lists(GeoPlaces)}

Pages(S) ==
    {Fault, Body(EmptyDict), Body([query |-> [pages |-> << >>]])}
    \cup {Body([query |-> [pages |-> << p >>]]) : p \in S}

ArticlePages ==
    { [title       |-> RedFort,
       extract     |-> Frag1 \o Frag2,
       coordinates |-> << [lat |-> 28, lon |-> 77] >>,
       categories  |-> << [title |-> "Category:Forts"], [ns |-> 14] >>,
       pageimage   |-> "Red_Fort.jpg"],
      [title |-> RedFort, missing |-> ""] }

ArticleResponses == Pages(ArticlePages)

TravelPages ==
    { [title |-> RedFort, extract |-> TravelExtract, pageimage |-> "Agra.jpg"],
      [title |-> RedFort, missing |-> ""] }

TravelResponses == Pages(TravelPages)

ImageInfos ==
    { [thumburl |-> "thumb/400px-Fort.jpg", url |-> "Fort.jpg",
       thumbwidth |-> 400, thumbheight |-> 300, width |-> 1600, height |-> 1200,
       extmetadata |-> [ImageDescription |-> [value |-> "The fort"]]],
      [url |-> "Gate.png", width |-> 800, height |-> 600] }

ImageInfoResponses ==
    Pages({[title |-> FortFile], [title |-> FortFile, imageinfo |-> << >>]})
    \cup {Body([query |-> [pages |-> << [title |-> FortFile, imageinfo |-> << i >>] >>]]) :
            i \in ImageInfos}

Tasks == {"article", "images", "travel"}

Args ==
    [search   |-> {[query |-> Agra, limit |-> n] : n \in 1..MaxLimit},
     heritage |-> {[location_id |-> RedFortId]},
     nearby   |-> {[lat |-> 28, lon |-> 77, radius |-> r] : r \in 1..MaxRadius}]

(***************************************************************************)
(* State                                                                   *)
(***************************************************************************)
VARIABLES
    op,       \* the endpoint called: "search", "heritage" or "nearby"
    lang,     \* its lang parameter
    arg,      \* its other parameters
    pc,       \* the handler: "start", "awaiting", "gather", "done"
    sent,     \* the GET requests issued so far
    task,     \* the three tasks of asyncio.gather
    img,      \* the locals of get_commons_images
    reply,    \* what the handler returned or raised
    got,      \* the responses received so far, per source
    text,     \* TextSpec: the text handed to the summarizer
    facts,    \* TextSpec: extract_heritage_facts(text)
    notes,    \* TextSpec: extract_cultural_info(text)
    timeline, \* TextSpec: extract_historical_dates(text)
    tdone     \* TextSpec: the summaries computed so far

avars == << op, lang, arg, pc, sent, task, img, reply, got >>

tvars == << text, facts, notes, timeline, tdone >>

vars == << op, lang, arg, pc, sent, task, img, reply, got,
           text, facts, notes, timeline, tdone >>

NoTask == [pc |-> "none", outcome |-> [raised |-> FALSE, value |-> << >>]]

NoImg == [stage |-> "none", hits |-> << >>, idx |-> 0, images |-> << >>]

NoReply == [outcome |-> "none", body |-> << >>]

NoneGot == [s \in {"search", "nearby", "article", "commons", "imageinfo", "travel"} |-> << >>]

ApiIdle ==
    /\ pc = "start"
    /\ sent = {}
    /\ task = [t \in Tasks |-> NoTask]
    /\ img = NoImg
    /\ reply = NoReply
    /\ got = NoneGot

TextIdle ==
    /\ facts = << >>
    /\ notes = << >>
    /\ timeline = << >>
    /\ tdone = {}

Init ==
    /\ op \in {"search", "heritage", "nearby"}
    /\ lang \in Langs
    /\ arg \in Args[op]
    /\ ApiIdle
    /\ text = << >>
    /\ TextIdle

\* The response of `source` is recorded.
Receive(source, resp) == got' = [got EXCEPT ![source] = Append(@, resp)]

(***************************************************************************)
(* /api/search                                                             *)
(***************************************************************************)
SearchCall ==
    /\ op = "search" /\ pc = "start"
    /\ sent' = sent \cup {SearchRequest(arg.query, lang, arg.limit)}
    /\ pc' = "awaiting"
    /\ UNCHANGED << op, lang, arg, task, img, reply, got, tvars >>

SearchResume ==
    /\ op = "search" /\ pc = "awaiting"
    /\ \E resp \in SearchResponses :
          /\ Receive("search", resp)
          /\ reply' = search_locations(arg.query, lang, arg.limit, search_wikipedia(resp))
    /\ pc' = "done"
    /\ UNCHANGED << op, lang, arg, sent, task, img, tvars >>

(***************************************************************************)
(* /api/nearby                                                             *)
(***************************************************************************)
NearbyCall ==
    /\ op = "nearby" /\ pc = "start"
    /\ sent' = sent \cup {GeoRequest(arg.lat, arg.lon, arg.radius, lang)}
    /\ pc' = "awaiting"
    /\ UNCHANGED << op, lang, arg, task, img, reply, got, tvars >>

NearbyResume ==
    /\ op = "nearby" /\ pc = "awaiting"
    /\ \E resp \in GeoResponses :
          /\ Receive("nearby", resp)
          /\ reply' = get_nearby_heritage(arg.lat, arg.lon, arg.radius, resp)
    /\ pc' = "done"
    /\ UNCHANGED << op, lang, arg, sent, task, img, tvars >>

(***************************************************************************)
(* /api/heritage/{location_id}                                             *)
(***************************************************************************)
\* location_title = location_id.replace("_", " ")
location_title(location_id) == Replace(location_id, Underscore, Space)

\* The hit lists the media search answers with.
CommonsHitLists ==
    { << >>,
      << [title |-> FortFile] >>,
      << [title |-> FortFile], [title |-> GateFile] >>,
      << [title |-> FortFile], [snippet |-> "untitled"] >>,
      << [snippet |-> "untitled"] >> }

CommonsSearchResponses ==
    {Fault, Body(EmptyDict)}
    \cup {Body([query |-> [search |-> hits]]) : hits \in CommonsHitLists}

\* The handler reaches asyncio.gather: the three coroutines become tasks.
HeritageCall ==
    /\ op = "heritage" /\ pc = "start"
    /\ task' = [t \in Tasks |-> [NoTask EXCEPT !.pc = "created"]]
    /\ pc' = "gather"
    /\ UNCHANGED << op, lang, arg, sent, img, reply, got, tvars >>

FirstRequest(t) ==
    CASE t = "article" -> ArticleRequest(location_title(arg.location_id), lang)
      [] t = "images"  -> CommonsSearchRequest(location_title(arg.location_id), DefaultLimit)
      [] t = "travel"  -> WikivoyageRequest(location_title(arg.location_id), lang)

\* A task runs up to its first await: its GET is issued.
TaskStart(t) ==
    /\ task[t].pc = "created"
    /\ sent' = sent \cup {FirstRequest(t)}
    /\ task' = [task EXCEPT ![t].pc = "awaiting"]
    /\ img' = IF t = "images" THEN [img EXCEPT !.stage = "search"] ELSE img
    /\ UNCHANGED << op, lang, arg, pc, reply, got, tvars >>

Finished(value) == [pc |-> "done", outcome |-> [raised |-> FALSE, value |-> value]]

ArticleRecv ==
    /\ task["article"].pc = "awaiting"
    /\ \E resp \in ArticleResponses :
          /\ Receive("article", resp)
          /\ task' = [task EXCEPT !["article"] = Finished(get_article_content(resp))]
    /\ UNCHANGED << op, lang, arg, pc, sent, img, reply, tvars >>

TravelRecv ==
    /\ task["travel"].pc = "awaiting"
    /\ \E resp \in TravelResponses :
          /\ Receive("travel", resp)
          /\ task' = [task EXCEPT !["travel"] = Finished(get_wikivoyage_content(resp))]
    /\ UNCHANGED << op, lang, arg, pc, sent, img, reply, tvars >>

\* get_commons_images at the top of its loop with item number idx next:
\* return images[:limit] after the last item, [] when the item has no title
\* (KeyError, caught), else issue the item's imageinfo GET and await it.
ImagesLoop(hits, idx, images, limit) ==
    IF idx > Len(hits)
    THEN /\ task' = [task EXCEPT !["images"] = Finished(Take(images, limit))]
         /\ img' = [stage |-> "returned", hits |-> hits, idx |-> idx, images |-> images]
         /\ UNCHANGED sent
    ELSE IF ~Has(hits[idx], "title")
    THEN /\ task' = [task EXCEPT !["images"] = Finished(<< >>)]
         /\ img' = [stage |-> "caught", hits |-> hits, idx |-> idx, images |-> images]
         /\ UNCHANGED sent
    ELSE /\ sent' = sent \cup {ImageInfoRequest(hits[idx].title)}
         /\ img' = [stage |-> "lookup", hits |-> hits, idx |-> idx, images |-> images]
         /\ UNCHANGED task

\* The media search answers.
ImagesSearchRecv ==
    /\ task["images"].pc = "awaiting" /\ img.stage = "search"
    /\ \E resp \in CommonsSearchResponses :
          /\ Receive("commons", resp)
          /\ IF resp.fault
             THEN /\ task' = [task EXCEPT !["images"] = Finished(<< >>)]
                  /\ img' = [img EXCEPT !.stage = "caught"]
                  /\ UNCHANGED sent
             ELSE IF Has(resp.data, "query") /\ Has(resp.data.query, "search")
             THEN ImagesLoop(resp.data.query.search, 1, << >>, DefaultLimit)
             ELSE /\ task' = [task EXCEPT !["images"] = Finished(<< >>)]
                  /\ img' = [img EXCEPT !.stage = "returned"]
                  /\ UNCHANGED sent
    /\ UNCHANGED << op, lang, arg, pc, reply, tvars >>

\* The imageinfo lookup of item number img.idx answers.
ImagesLookupRecv ==
    /\ task["images"].pc = "awaiting" /\ img.stage = "lookup"
    /\ \E resp \in ImageInfoResponses :
          /\ Receive("imageinfo", resp)
          /\ LET r == image_lookup(img.hits[img.idx], resp)
             IN  IF r.raised
                 THEN /\ task' = [task EXCEPT !["images"] = Finished(<< >>)]
                      /\ img' = [img EXCEPT !.stage = "caught"]
                      /\ UNCHANGED sent
                 ELSE ImagesLoop(img.hits, img.idx + 1, img.images \o r.add, DefaultLimit)
    /\ UNCHANGED << op, lang, arg, pc, reply, tvars >>

\* Faulty variant of GatherDone: the join returns with the first finished task.
GatherDone_first_completed == \E t \in Tasks : task[t].pc = "done"

\* asyncio.gather(..., return_exceptions=True) completes.
GatherDone == \A t \in Tasks : task[t].pc = "done"

\* The handler resumes after the gather and returns heritage_data.
HeritageMerge ==
    /\ op = "heritage" /\ pc = "gather"
    /\ GatherDone
    /\ \E wiki_content       \in {OrEmpty(task["article"].outcome, EmptyDict)},
          images             \in {OrEmpty(task["images"].outcome, << >>)},
          wikivoyage_content \in {OrEmpty(task["travel"].outcome, EmptyDict)} :
          \E extract \in {Get(wiki_content, "extract", << >>)} :
             \E order \in Orders(YearSet(FindYears(extract, 1))) :
                reply' = heritage_data(arg.location_id, location_title(arg.location_id), lang,
                                       wiki_content, images, wikivoyage_content, order)
    /\ pc' = "done"
    /\ UNCHANGED << op, lang, arg, sent, task, img, got, tvars >>

Next ==
    \/ SearchCall
    \/ SearchResume
    \/ NearbyCall
    \/ NearbyResume
    \/ HeritageCall
    \/ \E t \in Tasks : TaskStart(t)
    \/ ArticleRecv
    \/ TravelRecv
    \/ ImagesSearchRecv
    \/ ImagesLookupRecv
    \/ HeritageMerge

Spec == Init /\ [][Next]_vars

\* The event loop resumes the handler once the gather is complete.
FairSpec == Spec /\ WF_vars(HeritageMerge)

(***************************************************************************)
(* The summarizer on its own                                               *)
(***************************************************************************)
TextInit ==
    /\ op = "summarize"
    /\ lang = "en"
    /\ arg = EmptyDict
    /\ ApiIdle
    /\ text \in Texts
    /\ TextIdle

ExtractFacts ==
    /\ "facts" \notin tdone
    /\ facts' = extract_heritage_facts(text)
    /\ tdone' = tdone \cup {"facts"}
    /\ UNCHANGED << text, notes, timeline, avars >>

ExtractCulturalNotes ==
    /\ "notes" \notin tdone
    /\ notes' = extract_cultural_info(text)
    /\ tdone' = tdone \cup {"notes"}
    /\ UNCHANGED << text, facts, timeline, avars >>

ExtractTimeline ==
    /\ "timeline" \notin tdone
    /\ \E order \in Orders(YearSet(FindYears(text, 1))) :
          timeline' = extract_historical_dates(text, order)
    /\ tdone' = tdone \cup {"timeline"}
    /\ UNCHANGED << text, facts, notes, avars >>

TextNext == ExtractFacts \/ ExtractCulturalNotes \/ ExtractTimeline

TextSpec == TextInit /\ [][TextNext]_vars

(***************************************************************************)
(* Properties                                                              *)
(***************************************************************************)
\* Some response of `source` was a fault.
Faulted(source) == \E i \in 1..Len(got[source]) : got[source][i].fault

HeritageReturned == op = "heritage" /\ pc = "done"

EmptyWikipedia ==
    [extract |-> << >>, coordinates |-> << >>, categories |-> << >>, page_image |-> ""]

EmptyTravel == [extract |-> << >>, page_image |-> ""]

EmptySummary ==
    [heritage_facts |-> << >>, cultural_significance |-> << >>, historical_timeline |-> << >>]

\* The page an article or travel response carries, as a list of 0 or 1.
PageOf(source) ==
    IF got[source] # << >> /\ ~got[source][1].fault
       /\ Has(got[source][1].data, "query") /\ Has(got[source][1].data.query, "pages")
    THEN got[source][1].data.query.pages
    ELSE << >>

\* C1: whatever subset of the three fetches of get_heritage_content fails,
\* the handler returns (it does not raise) a record with every field
\* present; the part of a failed source is its empty value, and the part of
\* a source that answered carries that source's data.
C1_HeritageToleratesFailedSources ==
    HeritageReturned =>
        /\ reply.outcome = "ok"
        /\ DOMAIN reply.body = {"location_id", "title", "language", "wikipedia",
                                "travel_info", "images", "summary"}
        /\ DOMAIN reply.body.wikipedia = {"extract", "coordinates", "categories", "page_image"}
        /\ DOMAIN reply.body.travel_info = {"extract", "page_image"}
        /\ DOMAIN reply.body.summary = {"heritage_facts", "cultural_significance",
                                        "historical_timeline"}
        /\ Faulted("article") =>
              reply.body.wikipedia = EmptyWikipedia /\ reply.body.summary = EmptySummary
        /\ Faulted("commons") \/ Faulted("imageinfo") => reply.body.images = << >>
        /\ Faulted("travel") => reply.body.travel_info = EmptyTravel
        /\ \A i \in 1..Len(PageOf("article")) :
              LET page == PageOf("article")[i]
              IN  /\ Has(page, "extract") =>
                        /\ reply.body.wikipedia.extract = page.extract
                        /\ reply.body.summary.heritage_facts = extract_heritage_facts(page.extract)
                        /\ reply.body.summary.cultural_significance =
                              extract_cultural_info(page.extract)
                  /\ Has(page, "coordinates") =>
                        reply.body.wikipedia.coordinates = page.coordinates
                  /\ Has(page, "pageimage") => reply.body.wikipedia.page_image = page.pageimage
                  /\ Has(page, "categories") =>
                        /\ Len(reply.body.wikipedia.categories) = Len(page.categories)
                        /\ \A j \in 1..Len(page.categories) :
                              reply.body.wikipedia.categories[j]
                                 = Get(page.categories[j], "title", "")
        /\ \A i \in 1..Len(PageOf("travel")) :
              LET page == PageOf("travel")[i]
              IN  /\ Has(page, "extract") => reply.body.travel_info.extract = page.extract
                  /\ Has(page, "pageimage") => reply.body.travel_info.page_image = page.pageimage
        /\ img.stage = "returned" => reply.body.images = img.images

\* All three sources failed and the handler has returned.
C1_Witness_AllThreeFail ==
    /\ HeritageReturned
    /\ Faulted("article") /\ Faulted("commons") /\ Faulted("travel")
    /\ reply.outcome = "ok"

\* C2: when a second-stage lookup of get_commons_images fails, only that hit
\* is dropped: every hit is still looked up and the result is the resolved
\* assets, in hit order, cut to the limit.
C2_FailedLookupDropsOnlyThatHit ==
    (task["images"].pc = "done" /\ Faulted("imageinfo")) =>
        /\ Len(got["imageinfo"]) = Len(img.hits)
        /\ task["images"].outcome.value = Take(img.images, DefaultLimit)

\* C3: an upstream failure of a single-source operation (search, nearby)
\* ends in the service-unavailable error, not in a normal result.
C3_SingleSourceFailureSurfaces ==
    (op \in {"search", "nearby"} /\ pc = "done" /\ Faulted(op)) => reply.outcome = "error"

AllFetchesFinished == \A t \in Tasks : task[t].pc = "done"

\* C4: within get_heritage_content all three fetches are dispatched as
\* tasks; the handler returns only after all three have finished; a task in
\* flight is never cancelled and a step of one task leaves the others as
\* they were; and once all three have finished the handler returns.
C4_JoinWaitsForAllFetches ==
    /\ [](op = "heritage" /\ pc = "gather" => \A t \in Tasks : task[t].pc # "none")
    /\ [](HeritageReturned => AllFetchesFinished)
    /\ [][pc = "gather" =>
            /\ \A t \in Tasks :
                  /\ task[t].pc = "awaiting" => task'[t].pc \in {"awaiting", "done"}
                  /\ task[t].pc = "done" => task'[t] = task[t]
            /\ \A t, u \in Tasks : (t # u /\ task'[t] # task[t]) => task'[u] = task[u]]_vars
    /\ (op = "heritage" /\ AllFetchesFinished) ~> HeritageReturned

\* One fetch has ended in a fault while another is still in flight, and the
\* handler has not returned.
C4_Witness_FaultWhileInFlight ==
    /\ op = "heritage" /\ pc = "gather"
    /\ task["article"].pc = "done" /\ Faulted("article")
    /\ task["travel"].pc = "awaiting"
    /\ task["images"].pc = "awaiting" /\ img.stage = "lookup"

\* The value of four digits.
DigitValue(c) == Code[c] - Code["0"]

Number(s, i) ==
    1000 * DigitValue(s[i]) + 100 * DigitValue(s[i + 1]) + 10 * DigitValue(s[i + 2])
    + DigitValue(s[i + 3])

\* The indices where a 4-digit year of 1000-1999 or 2000-2029 stands as a
\* word of its own.
YearPositions(s) ==
    {i \in 1..(Len(s) - 3) :
        /\ \A k \in 0..3 : s[i + k] \in Digit
        /\ Number(s, i) \in (1000..1999) \cup (2000..2029)
        /\ (i = 1 \/ ~IsWord(s[i - 1]))
        /\ (i + 3 = Len(s) \/ ~IsWord(s[i + 4]))}

\* The indices where a century phrase begins.
CenturyPositions(s) == {i \in 1..Len(s) : CenturyAt(s, i).next # 0}

CenturyPeriod(s, i) ==
    CenturyAt(s, i).century \o CenturyAt(s, i).suffix \o <<" ">> \o CenturyWord

\* How many entries the claim expects with entry e: one if e is a matched
\* year, one per occurrence if e is a century phrase.
ExpectedCount(s, e) ==
    IF e.type = "year"
    THEN IF \E i \in YearPositions(s) : SubSeq(s, i, i + 3) = e.period THEN 1 ELSE 0
    ELSE Cardinality({i \in CenturyPositions(s) : CenturyPeriod(s, i) = e.period})

ExpectedEntries(s) ==
    {[period |-> SubSeq(s, i, i + 3), type |-> "year"] : i \in YearPositions(s)}
    \cup {[period |-> CenturyPeriod(s, i), type |-> "century"] : i \in CenturyPositions(s)}

ExpectedTotal(s) ==
    Cardinality({SubSeq(s, i, i + 3) : i \in YearPositions(s)})
    + Cardinality(CenturyPositions(s))

CountIn(seq, e) == Cardinality({i \in 1..Len(seq) : seq[i] = e})

\* C5: extract_historical_dates returns at most 5 entries, and they are the
\* first 5 of the sort by period string of one year entry per distinct
\* matched year and one century entry per occurrence of a century phrase.
C5_TimelineIsFirstFiveOfSortedEntries ==
    "timeline" \in tdone =>
        /\ Len(timeline) <= 5
        /\ Len(timeline) = Min(5, ExpectedTotal(text))
        /\ \A i, j \in 1..Len(timeline) :
              i < j => ~StrLess(timeline[j].period, timeline[i].period)
        /\ \A i \in 1..Len(timeline) :
              /\ timeline[i] \in ExpectedEntries(text)
              /\ CountIn(timeline, timeline[i]) <= ExpectedCount(text, timeline[i])
        /\ \A e \in ExpectedEntries(text) :
              CountIn(timeline, e) < ExpectedCount(text, e) =>
                  ~StrLess(e.period, timeline[Len(timeline)].period)

\* A text with a repeated year, a repeated century phrase and more than 5
\* entries has been summarized.
C5_Witness_TruncatedWithRepeats ==
    /\ "timeline" \in tdone
    /\ Len(timeline) = 5
    /\ ExpectedTotal(text) > 5
    /\ Cardinality(YearPositions(text)) > Cardinality({SubSeq(text, i, i + 3) : i \in YearPositions(text)})
    /\ \E i, j \in 1..5 : i # j /\ timeline[i] = timeline[j] /\ timeline[i].type = "century"

\* The indices of the separators ". " of s.
SeparatorPositions(s) == {i \in 1..(Len(s) - 1) : s[i] = "." /\ s[i + 1] = " "}

\* The indices where a sentence begins.
SentenceStarts(s) == {1} \cup {i + 2 : i \in SeparatorPositions(s)}

\* The trimmed sentence that begins at b.
SentenceFrom(s, b) ==
    LET later == {i \in SeparatorPositions(s) : i >= b}
    IN  Strip(SubSeq(s, b, IF later = {} THEN Len(s) ELSE First(later) - 1))

\* sentence contains kw, ignoring case.
Mentions(sentence, kw) ==
    \E i \in 1..(Len(sentence) - Len(kw) + 1) :
        \A k \in 1..Len(kw) : ToLower(sentence[i + k - 1]) = kw[k]

MentionsAny(sentence, keywords) == \E k \in 1..Len(keywords) : Mentions(sentence, keywords[k])

\* The starts of the sentences longer than 20 characters with a keyword.
Qualifying(s, keywords) ==
    {b \in SentenceStarts(s) :
        Len(SentenceFrom(s, b)) > 20 /\ MentionsAny(SentenceFrom(s, b), keywords)}

\* result is the first n qualifying sentences of s in text order, each with
\* its period re-appended, and nothing else.
FirstQualifying(result, s, keywords, n) ==
    LET Q == Qualifying(s, keywords)
    IN  /\ Len(result) = Min(n, Cardinality(Q))
        /\ \A b \in Q :
              LET rank == Cardinality({c \in Q : c <= b})
              IN  rank <= n => result[rank] = SentenceFrom(s, b) \o <<".">>
        /\ \A i \in 1..Len(result) :
              /\ Len(result[i]) > 20
              /\ MentionsAny(result[i], keywords)

\* C6: extract_heritage_facts (extract_cultural_info) returns exactly the
\* first 5 (3), in text order, of the sentences split on ". " whose trimmed
\* form is longer than 20 characters and contains a heritage (cultural)
\* keyword ignoring case, each with its period re-appended; no returned
\* sentence is 20 characters or shorter or lacks a keyword; an empty text
\* gives the empty sequence.
C6_FactsAndNotesAreFirstQualifyingSentences ==
    /\ "facts" \in tdone =>
          /\ FirstQualifying(facts, text, heritage_keywords, 5)
          /\ text = << >> => facts = << >>
    /\ "notes" \in tdone =>
          /\ FirstQualifying(notes, text, cultural_keywords, 3)
          /\ text = << >> => notes = << >>

\* A text with more than 5 heritage and more than 3 cultural sentences has
\* been summarized.
C6_Witness_BothTruncated ==
    /\ {"facts", "notes"} \subseteq tdone
    /\ Cardinality(Qualifying(text, heritage_keywords)) > 5 /\ Len(facts) = 5
    /\ Cardinality(Qualifying(text, cultural_keywords)) > 3 /\ Len(notes) = 3

\* C7: search returns at most `limit` hits, in upstream order, for every
\* upstream response.
C7_SearchReturnsAtMostLimit ==
    (op = "search" /\ pc = "done" /\ reply.outcome = "ok") =>
        /\ Len(reply.body.locations) <= arg.limit
        /\ \A i \in 1..Len(reply.body.locations) :
              reply.body.locations[i].title = search_wikipedia(got["search"][1])[i].title

\* The hits or places of a well-formed single-source response.
ItemsOf(source, key) ==
    IF Has(got[source][1].data, "query") /\ Has(got[source][1].data.query, key)
    THEN got[source][1].data.query[key]
    ELSE << >>

\* C8: an absent field of a well-formed upstream response never becomes a
\* fault: with no faulted response, every operation completes normally and
\* every item of the response is returned.
C8_AbsentFieldNeverFaults ==
    (pc = "done" /\ \A s \in DOMAIN got : ~Faulted(s)) =>
        /\ reply.outcome = "ok"
        /\ op = "search" => Len(reply.body.locations) = Len(ItemsOf("search", "search"))
        /\ op = "nearby" => Len(reply.body.places) = Len(ItemsOf("nearby", "geosearch"))
        /\ op = "heritage" => reply.body.images = img.images

SupportedLanguages == {"en", "hi", "ta", "te", "bn"}

\* C9: every request to a language-specific host goes to the host of the
\* lang parameter when it is one of en, hi, ta, te, bn and to the en host
\* otherwise, in search, article content, travel content and geosearch.
C9_UnsupportedLanguageFallsBackToEn ==
    /\ \A r \in sent :
          r.site \in {"wikipedia", "wikivoyage"} =>
              r.lang = IF lang \in SupportedLanguages THEN lang ELSE "en"
    /\ (op \in {"search", "nearby"} /\ pc # "start") =>
          \E r \in sent : r.site = "wikipedia"
    /\ HeritageReturned =>
          /\ \E r \in sent : r.site = "wikipedia"
          /\ \E r \in sent : r.site = "wikivoyage"

\* The heritage handler was called with lang=fr and both language-specific
\* requests went to the en hosts.
C9_Witness_FrenchGoesToEn ==
    /\ HeritageReturned /\ lang = "fr"
    /\ \E r \in sent : r.site = "wikipedia" /\ r.lang = "en"
    /\ \E r \in sent : r.site = "wikivoyage" /\ r.lang = "en"

C10Text == Frag1 \o Frag2

C10FirstSentence ==
    <<"T","h","e"," ","f","o","r","t"," ","w","a","s"," ","b","u","i","l","t"," ","i","n"," ","1","5","6","5"," ","a","n","d"," ","r","e","n","o","v","a","t","e","d"," ","i","n"," ","t","h","e"," ","1","9","t","h"," ","c","e","n","t","u","r","y",".">>

C10SecondSentence ==
    <<"I","t"," ","i","s"," ","a"," ","f","a","m","o","u","s"," ","t","e","m","p","l","e",".">>

\* C10: for the text "The fort was built in 1565 and renovated in the 19th
\* century. It is a famous temple." extract_heritage_facts returns the two
\* sentences of the text and extract_historical_dates returns 1565 (year)
\* then 19th century (century).
C10_ExampleText ==
    (text = C10Text /\ {"facts", "timeline"} \subseteq tdone) =>
        /\ facts = << C10FirstSentence, C10SecondSentence >>
        /\ timeline = << [period |-> <<"1","5","6","5">>, type |-> "year"],
                         [period |-> <<"1","9","t","h"," ","c","e","n","t","u","r","y">>, type |-> "century"] >>

====
